---- MODULE Spec2Model ----
(***************************************************************************)
(* A model of DigiPathAI/loaders/dataloader.py: WSIStridedPatchDataset.    *)
(*                                                                         *)
(* A raster (numpy array or PIL image seen as an array) is a record        *)
(*   [h |-> rows, w |-> columns, px |-> [(0..h-1) \X (0..w-1) -> value]]   *)
(* indexed [row, column] like the numpy arrays of the source; the source   *)
(* calls the two axes of the mask X and Y (X_mask, Y_mask = mask.shape).   *)
(* A float32 pixel is held as the integer 128 * value, which is exact for  *)
(* every value v and (v - 128.0)/128.0 with v in 0..255.                   *)
(***************************************************************************)
EXTENDS Integers, Sequences, FiniteSets, TLC

VARIABLES
    pc,               \* "new", "constructed" or "failed" (exception in __init__)
    err,              \* the exception that ended __init__, or "none"
    image_size,       \* self._image_size
    normalize,        \* self._normalize
    flip,             \* self._flip
    rotate,           \* self._rotate
    sampling_stride,  \* self._sampling_stride
    roi_masking,      \* self._roi_masking
    has_label,        \* self._label_path is not None
    slide,            \* self._slide
    label_slide,      \* self._label_slide (Unset when never assigned)
    mask,             \* self._mask
    strided_mask,     \* self._strided_mask
    X_idcs,           \* self._X_idcs
    Y_idcs,           \* self._Y_idcs
    idcs_num,         \* self._idcs_num
    ret,              \* what the last __len__ / accessor call returned
    saved,            \* the array file written by save_get_mask
    rpc,              \* per reader: position inside __getitem__
    ridx,             \* per reader: the idx argument
    rx,               \* per reader: x_coord
    ry,               \* per reader: y_coord
    rimg,             \* per reader: img
    rlabel,           \* per reader: label_img
    rret              \* per reader: the returned 4-tuple, or the exception

config  == <<image_size, normalize, flip, rotate, sampling_stride, roi_masking, has_label>>
rasters == <<slide, label_slide, mask, strided_mask>>
index   == <<X_idcs, Y_idcs, idcs_num>>
object  == <<config, rasters, index>>
readers == <<rpc, ridx, rx, ry, rimg, rlabel, rret>>
vars    == <<pc, err, object, ret, saved, readers>>

----------------------------------------------------------------------------
(* Bounds of the model *)

MaxDim     == 4     \* mask rasters have 1..MaxDim rows and columns
MaxStride  == 2     \* sampling_stride is -MaxStride or in 0..MaxStride
MaxSize    == 3     \* image_size ranges over 1..MaxSize
NumReaders == 2     \* concurrent callers of __getitem__

Readers == 1..NumReaders

----------------------------------------------------------------------------
(* Rasters *)

Pos(h, w) == (0..(h - 1)) \X (0..(w - 1))

Unset == [h |-> 0, w |-> 0, px |-> << >>]

\* The decoded RGB slide: a fixed picture whose pixels differ by position.
SlideRaster(h, w) ==
    [h |-> h, w |-> w,
     px |-> [p \in Pos(h, w) |->
               LET k == p[1] * w + p[2]
               IN  <<(k * 8) % 256, 255 - ((k * 8) % 256), (128 + k) % 256>>]]

\* The decoded single-channel label raster: pixels differ by position.
LabelRaster(h, w) ==
    [h |-> h, w |-> w, px |-> [p \in Pos(h, w) |-> (p[1] * w + p[2] + 1) % 256]]

\* The cleaned tissue mask (what BinMorphoProcessMask returned): value v on
\* the rows R and columns C, 0 elsewhere.
MaskRaster(h, w, R, C, v) ==
    [h |-> h, w |-> w,
     px |-> [p \in Pos(h, w) |-> IF p[1] \in R /\ p[2] \in C THEN v ELSE 0]]

----------------------------------------------------------------------------
(* _preprocess: the lattice, the strided mask and the coordinate index *)

\* The indices a numpy slice [::step] selects on an axis of length n.
SliceIdcs(n, step) ==
    IF step > 0
    THEN {i \in 0..(n - 1) : i % step = 0}
    ELSE {i \in 0..(n - 1) : ((n - 1) - i) % (-step) = 0}

\* ones_mask = np.zeros_like(mask); ones_mask[::factor, ::factor] = 1
OnesMask(m, factor) ==
    [h |-> m.h, w |-> m.w,
     px |-> [p \in Pos(m.h, m.w) |->
               IF p[1] \in SliceIdcs(m.h, factor) /\ p[2] \in SliceIdcs(m.w, factor)
               THEN 1 ELSE 0]]

\* np.ones_like(mask)
OnesLike(m) == [h |-> m.h, w |-> m.w, px |-> [p \in Pos(m.h, m.w) |-> 1]]

\* Mutant of StridedMask: the tissue mask is multiplied in whatever the flag.
StridedMaskAlwaysRoi(roi, ones, m) ==
    [h |-> m.h, w |-> m.w,
     px |-> [p \in Pos(m.h, m.w) |-> (ones.px[p] * m.px[p]) % 256]]

\* The strided mask: ones_mask*mask (uint8 product) under roi_masking,
\* ones_mask alone otherwise.
StridedMask(roi, ones, m) ==
    IF roi
    THEN [h |-> m.h, w |-> m.w,
          px |-> [p \in Pos(m.h, m.w) |-> (ones.px[p] * m.px[p]) % 256]]
    ELSE ones

\* Mutant of NpWhere: the positions are listed column by column.
NpWhereColumnMajor(a) ==
    LET all == [k \in 1..(a.h * a.w) |-> <<(k - 1) % a.h, (k - 1) \div a.h>>]
        NonZero(p) == a.px[p] # 0
    IN  SelectSeq(all, NonZero)

\* np.where(a) of a 2-d array: the positions of its nonzero entries, in
\* row-major order (tempX, tempY zipped).
NpWhere(a) ==
    LET all == [k \in 1..(a.h * a.w) |-> <<(k - 1) \div a.w, (k - 1) % a.w>>]
        NonZero(p) == a.px[p] # 0
    IN  SelectSeq(all, NonZero)

\* Mutant of BoundaryFit: the lower tests are not strict.
BoundaryFitLoose(x_, y_, size, X_mask, Y_mask) ==
    /\ (x_ - size \div 2) >= 0
    /\ (x_ + size \div 2) < X_mask
    /\ (y_ - size \div 2) >= 0
    /\ (y_ + size \div 2) < Y_mask

\* case1 and case2 and case3 and case4
BoundaryFit(x_, y_, size, X_mask, Y_mask) ==
    /\ (x_ - size \div 2) > 0
    /\ (x_ + size \div 2) < X_mask
    /\ (y_ - size \div 2) > 0
    /\ (y_ + size \div 2) < Y_mask

\* Mutant of KeptPositions: the loop stops one position early.
KeptPositionsSkipLast(temp, size, X_mask, Y_mask) ==
    LET Fits(p) == BoundaryFit(p[1], p[2], size, X_mask, Y_mask)
    IN  SelectSeq(SubSeq(temp, 1, Len(temp) - 1), Fits)

\* The loop over zip(tempX, tempY): the positions appended to the index.
KeptPositions(temp, size, X_mask, Y_mask) ==
    LET Fits(p) == BoundaryFit(p[1], p[2], size, X_mask, Y_mask)
    IN  SelectSeq(temp, Fits)

XsOf(kept) == [i \in 1..Len(kept) |-> kept[i][1]]
YsOf(kept) == [i \in 1..Len(kept) |-> kept[i][2]]

NoReturn == [op |-> "none", val |-> 0]

\* __init__ followed by _preprocess, for the constructor arguments and
\* decoded files c.
Construct(c) ==
    /\ pc = "new"
    /\ image_size' = c.image_size
    /\ normalize' = c.normalize
    /\ flip' = c.flip
    /\ rotate' = c.rotate
    /\ sampling_stride' = c.stride
    /\ roi_masking' = c.roi
    /\ has_label' = c.has_label
    /\ slide' = SlideRaster(c.slide_shape[1], c.slide_shape[2])
    /\ label_slide' = IF c.has_label
                      THEN LabelRaster(c.label_shape[1], c.label_shape[2])
                      ELSE Unset
    /\ mask' = c.mask
    /\ LET factor == c.stride
           X_mask == c.mask.h
           Y_mask == c.mask.w
       IN  IF factor = 0
           THEN \* ones_mask[::0, ::0]: slice step cannot be zero
                /\ strided_mask' = OnesLike(c.mask)
                /\ X_idcs' = << >> /\ Y_idcs' = << >> /\ idcs_num' = -1
                /\ pc' = "failed" /\ err' = "ValueError"
           ELSE LET sm   == StridedMask(c.roi, OnesMask(c.mask, factor), c.mask)
                    temp == NpWhere(sm)
                    kept == KeptPositions(temp, c.image_size, X_mask, Y_mask)
                IN  /\ strided_mask' = sm
                    /\ IF Len(temp) = 0
                       THEN \* tempX.max() of an empty array
                            /\ X_idcs' = << >> /\ Y_idcs' = << >> /\ idcs_num' = -1
                            /\ pc' = "failed" /\ err' = "ValueError"
                       ELSE /\ X_idcs' = XsOf(kept)
                            /\ Y_idcs' = YsOf(kept)
                            /\ idcs_num' = Len(XsOf(kept))
                            /\ pc' = "constructed" /\ err' = "none"
    /\ UNCHANGED <<ret, saved, readers>>

----------------------------------------------------------------------------
(* __len__ and the accessors *)

Len_ ==
    /\ pc = "constructed"
    /\ ret' = [op |-> "__len__", val |-> idcs_num]
    /\ UNCHANGED <<pc, err, object, saved, readers>>

get_mask ==
    /\ pc = "constructed"
    /\ ret' = [op |-> "get_mask", val |-> mask]
    /\ UNCHANGED <<pc, err, object, saved, readers>>

get_label_mask ==
    /\ pc = "constructed"
    /\ ret' = IF has_label
              THEN [op |-> "get_label_mask", val |-> label_slide]
              ELSE [op |-> "get_label_mask", val |-> "AttributeError"]
    /\ UNCHANGED <<pc, err, object, saved, readers>>

get_image ==
    /\ pc = "constructed"
    /\ ret' = [op |-> "get_image", val |-> slide]
    /\ UNCHANGED <<pc, err, object, saved, readers>>

get_strided_mask ==
    /\ pc = "constructed"
    /\ ret' = [op |-> "get_strided_mask", val |-> strided_mask]
    /\ UNCHANGED <<pc, err, object, saved, readers>>

save_get_mask ==
    /\ pc = "constructed"
    /\ saved' = mask
    /\ ret' = [op |-> "save_get_mask", val |-> 0]
    /\ UNCHANGED <<pc, err, object, readers>>

----------------------------------------------------------------------------
(* __getitem__ *)

\* Mutant of NpIndex: every index wraps around, none is rejected.
NpIndexWrap(a, idx) ==
    IF Len(a) = 0
    THEN [ok |-> FALSE, val |-> 0]
    ELSE [ok |-> TRUE, val |-> a[(idx % Len(a)) + 1]]

\* a[idx] on a one-dimensional numpy array: negative indices count from the
\* end, and an index outside -len..len-1 raises IndexError.
NpIndex(a, idx) ==
    IF 0 <= idx /\ idx < Len(a)
    THEN [ok |-> TRUE, val |-> a[idx + 1]]
    ELSE IF -Len(a) <= idx /\ idx < 0
         THEN [ok |-> TRUE, val |-> a[Len(a) + idx + 1]]
         ELSE [ok |-> FALSE, val |-> 0]

\* getImagePatch(image, (x, y), size): the square of side size centred on
\* (x, y), the half size floor-divided.
getImagePatch(image, x, y, size) ==
    [h |-> size, w |-> size,
     px |-> [p \in Pos(size, size) |->
               image.px[<<x - (size \div 2) + p[1], y - (size \div 2) + p[2]>>]]]

\* Mutant of ZeroLabel: np.ones in place of np.zeros.
ZeroLabelOnes(size) ==
    [h |-> size, w |-> size, px |-> [p \in Pos(size, size) |-> 1]]

\* Image.fromarray(np.zeros((image_size, image_size), dtype=np.uint8))
ZeroLabel(size) ==
    [h |-> size, w |-> size, px |-> [p \in Pos(size, size) |-> 0]]

\* Image.transpose(method), on the image seen as an array [row, column];
\* the rotations are counter-clockwise.
Transpose(img, method) ==
    CASE method = "FLIP_LEFT_RIGHT" ->
           [h |-> img.h, w |-> img.w,
            px |-> [p \in Pos(img.h, img.w) |-> img.px[<<p[1], img.w - 1 - p[2]>>]]]
      [] method = "ROTATE_90" ->
           [h |-> img.w, w |-> img.h,
            px |-> [p \in Pos(img.w, img.h) |-> img.px[<<p[2], img.w - 1 - p[1]>>]]]
      [] method = "ROTATE_180" ->
           [h |-> img.h, w |-> img.w,
            px |-> [p \in Pos(img.h, img.w) |->
                      img.px[<<img.h - 1 - p[1], img.w - 1 - p[2]>>]]]
      [] method = "ROTATE_270" ->
           [h |-> img.w, w |-> img.h,
            px |-> [p \in Pos(img.w, img.h) |-> img.px[<<img.h - 1 - p[2], p[1]>>]]]

\* np.array(img, dtype=np.float32): every channel v held as 128 * v.
ToFloat32(img) ==
    [h |-> img.h, w |-> img.w,
     px |-> [p \in Pos(img.h, img.w) |->
               [c \in 1..3 |-> 128 * img.px[p][c]]]]

\* (img - 128.0)/128.0 on the held values.
Normalized(img) ==
    [h |-> img.h, w |-> img.w,
     px |-> [p \in Pos(img.h, img.w) |->
               [c \in 1..3 |-> (img.px[p][c] - 128 * 128) \div 128]]]

\* np.array(label_img, dtype=np.uint8)
ToUint8(img) ==
    [h |-> img.h, w |-> img.w, px |-> [p \in Pos(img.h, img.w) |-> img.px[p] % 256]]

\* x_coord, y_coord = self._X_idcs[idx], self._Y_idcs[idx]
GetItemLookup(r, idx) ==
    /\ pc = "constructed"
    /\ rpc[r] \in {"idle", "returned", "raised"}
    /\ ridx' = [ridx EXCEPT ![r] = idx]
    /\ LET xi == NpIndex(X_idcs, idx)
           yi == NpIndex(Y_idcs, idx)
       IN  IF xi.ok /\ yi.ok
           THEN /\ rx' = [rx EXCEPT ![r] = xi.val]
                /\ ry' = [ry EXCEPT ![r] = yi.val]
                /\ rpc' = [rpc EXCEPT ![r] = "crop"]
                /\ rret' = [rret EXCEPT ![r] = NoReturn]
           ELSE /\ rpc' = [rpc EXCEPT ![r] = "raised"]
                /\ rret' = [rret EXCEPT ![r] = [op |-> "IndexError", val |-> 0]]
                /\ UNCHANGED <<rx, ry>>
    /\ UNCHANGED <<pc, err, object, ret, saved, rimg, rlabel>>

\* img = getImagePatch(...); label_img = the label crop, or the zero patch
GetItemCrop(r) ==
    /\ rpc[r] = "crop"
    /\ rimg' = [rimg EXCEPT ![r] = getImagePatch(slide, rx[r], ry[r], image_size)]
    /\ rlabel' = [rlabel EXCEPT ![r] =
                    IF has_label
                    THEN getImagePatch(label_slide, rx[r], ry[r], image_size)
                    ELSE ZeroLabel(image_size)]
    /\ rpc' = [rpc EXCEPT ![r] = "flip"]
    /\ UNCHANGED <<pc, err, object, ret, saved, ridx, rx, ry, rret>>

\* Mutant of GetItemFlip: the flip is also written back into the slide raster.
GetItemFlipInPlace(r) ==
    /\ rpc[r] = "flip"
    /\ IF flip = "FLIP_LEFT_RIGHT"
       THEN /\ rimg' = [rimg EXCEPT ![r] = Transpose(rimg[r], "FLIP_LEFT_RIGHT")]
            /\ rlabel' = [rlabel EXCEPT ![r] = Transpose(rlabel[r], "FLIP_LEFT_RIGHT")]
            /\ slide' = Transpose(slide, "FLIP_LEFT_RIGHT")
       ELSE UNCHANGED <<rimg, rlabel, slide>>
    /\ rpc' = [rpc EXCEPT ![r] = "rotate"]
    /\ UNCHANGED <<pc, err, config, label_slide, mask, strided_mask, index,
                   ret, saved, ridx, rx, ry, rret>>

\* if self._flip == 'FLIP_LEFT_RIGHT': both patches are mirrored
GetItemFlip(r) ==
    /\ rpc[r] = "flip"
    /\ IF flip = "FLIP_LEFT_RIGHT"
       THEN /\ rimg' = [rimg EXCEPT ![r] = Transpose(rimg[r], "FLIP_LEFT_RIGHT")]
            /\ rlabel' = [rlabel EXCEPT ![r] = Transpose(rlabel[r], "FLIP_LEFT_RIGHT")]
       ELSE UNCHANGED <<rimg, rlabel>>
    /\ rpc' = [rpc EXCEPT ![r] = "rotate"]
    /\ UNCHANGED <<pc, err, object, ret, saved, ridx, rx, ry, rret>>

\* The three tests of self._rotate applied in turn to a patch.
Rotated(img, rot) ==
    LET a == IF rot = "ROTATE_90"  THEN Transpose(img, "ROTATE_90") ELSE img
        b == IF rot = "ROTATE_180" THEN Transpose(a, "ROTATE_180") ELSE a
    IN  IF rot = "ROTATE_270" THEN Transpose(b, "ROTATE_270") ELSE b

\* Mutant of GetItemRotate: the label patch is turned the other way.
GetItemRotateLabelOpposite(r) ==
    /\ rpc[r] = "rotate"
    /\ rimg' = [rimg EXCEPT ![r] = Rotated(rimg[r], rotate)]
    /\ rlabel' = [rlabel EXCEPT ![r] =
                    Rotated(rlabel[r],
                            CASE rotate = "ROTATE_90" -> "ROTATE_270"
                              [] rotate = "ROTATE_270" -> "ROTATE_90"
                              [] OTHER -> rotate)]
    /\ rpc' = [rpc EXCEPT ![r] = "convert"]
    /\ UNCHANGED <<pc, err, object, ret, saved, ridx, rx, ry, rret>>

\* if self._rotate == 'ROTATE_90' / 'ROTATE_180' / 'ROTATE_270'
GetItemRotate(r) ==
    /\ rpc[r] = "rotate"
    /\ rimg' = [rimg EXCEPT ![r] = Rotated(rimg[r], rotate)]
    /\ rlabel' = [rlabel EXCEPT ![r] = Rotated(rlabel[r], rotate)]
    /\ rpc' = [rpc EXCEPT ![r] = "convert"]
    /\ UNCHANGED <<pc, err, object, ret, saved, ridx, rx, ry, rret>>

\* The conversions, the normalisation and the return; the locals die.
GetItemReturn(r) ==
    /\ rpc[r] = "convert"
    /\ LET img       == ToFloat32(rimg[r])
           label_img == ToUint8(rlabel[r])
           out       == IF normalize THEN Normalized(img) ELSE img
       IN  rret' = [rret EXCEPT ![r] =
                      [op |-> "__getitem__", val |-> <<out, rx[r], ry[r], label_img>>]]
    /\ rpc' = [rpc EXCEPT ![r] = "returned"]
    /\ rimg' = [rimg EXCEPT ![r] = Unset]
    /\ rlabel' = [rlabel EXCEPT ![r] = Unset]
    /\ rx' = [rx EXCEPT ![r] = 0]
    /\ ry' = [ry EXCEPT ![r] = 0]
    /\ UNCHANGED <<pc, err, object, ret, saved, ridx>>

----------------------------------------------------------------------------
(* Constructor arguments *)

Flips   == {"NONE", "FLIP_LEFT_RIGHT"}
Rotates == {"NONE", "ROTATE_90", "ROTATE_180", "ROTATE_270"}
Strides == {-MaxStride} \cup (0..MaxStride)
Sizes   == 1..MaxSize
Dims    == 1..MaxDim

\* Cleaned tissue masks: a rectangle of tissue of value 255 (possibly empty)
\* on background, and the all-tissue mask of value 1.
RectMasks(h, w) ==
    {MaskRaster(h, w, 0..(h - 1), 0..(w - 1), 1)} \cup
    {MaskRaster(h, w, r0..r1, c0..c1, 255) :
        r0 \in 0..(h - 1), r1 \in 0..(h - 1), c0 \in 0..(w - 1), c1 \in 0..(w - 1)}

\* How the decoded slide and label relate to the mask's shape <<h, w>>.
Shapes(h, w) ==
    { [has_label |-> FALSE, slide_shape |-> <<h, w>>,     label_shape |-> <<0, 0>>],
      [has_label |-> TRUE,  slide_shape |-> <<h, w>>,     label_shape |-> <<h, w>>],
      [has_label |-> FALSE, slide_shape |-> <<h + 1, w>>, label_shape |-> <<0, 0>>],
      [has_label |-> TRUE,  slide_shape |-> <<h, w>>,     label_shape |-> <<h, w + 1>>] }

Config(m, sh, size, stride, roi, fl, ro, nm) ==
    [mask |-> m, slide_shape |-> sh.slide_shape, has_label |-> sh.has_label,
     label_shape |-> sh.label_shape, image_size |-> size, stride |-> stride,
     roi |-> roi, flip |-> fl, rotate |-> ro, normalize |-> nm]

\* Construction over every mask, stride, size and roi setting, with the
\* default flip, rotate and normalize arguments.
Build ==
    /\ pc = "new"
    /\ \E h \in Dims, w \in Dims :
        \E m \in RectMasks(h, w), sh \in Shapes(h, w), size \in Sizes,
           stride \in Strides, roi \in BOOLEAN :
          Construct(Config(m, sh, size, stride, roi, "NONE", "NONE", TRUE))

Init ==
    /\ pc = "new" /\ err = "none"
    /\ image_size = 0 /\ normalize = FALSE /\ flip = "NONE" /\ rotate = "NONE"
    /\ sampling_stride = 0 /\ roi_masking = FALSE /\ has_label = FALSE
    /\ slide = Unset /\ label_slide = Unset /\ mask = Unset /\ strided_mask = Unset
    /\ X_idcs = << >> /\ Y_idcs = << >> /\ idcs_num = -1
    /\ ret = NoReturn /\ saved = Unset
    /\ rpc = [r \in Readers |-> "idle"]
    /\ ridx = [r \in Readers |-> 0]
    /\ rx = [r \in Readers |-> 0]
    /\ ry = [r \in Readers |-> 0]
    /\ rimg = [r \in Readers |-> Unset]
    /\ rlabel = [r \in Readers |-> Unset]
    /\ rret = [r \in Readers |-> NoReturn]

Next == Build \/ Len_

Spec == Init /\ [][Next]_vars

\* Reading: well-formed inputs (agreeing shapes, a positive stride), every
\* flip, rotate, normalize and label setting, one caller, every index from
\* two below -len to one above len.
ReadDims == (MaxDim - 1)..MaxDim

ReadMasks(h, w) ==
    { MaskRaster(h, w, 0..(h - 1), 0..(w - 1), 1),
      MaskRaster(h, w, (h - 2)..(h - 1), 0..(w - 1), 255),
      MaskRaster(h, w, 0..(h - 1), (w - 2)..(w - 1), 255) }

ReadShapes(h, w) ==
    { [has_label |-> FALSE, slide_shape |-> <<h, w>>, label_shape |-> <<0, 0>>],
      [has_label |-> TRUE,  slide_shape |-> <<h, w>>, label_shape |-> <<h, w>>] }

ReadBuild ==
    /\ pc = "new"
    /\ \E h \in ReadDims, w \in ReadDims :
        \E m \in ReadMasks(h, w), sh \in ReadShapes(h, w), size \in Sizes,
           stride \in 1..MaxStride, roi \in BOOLEAN,
           fl \in Flips, ro \in Rotates, nm \in BOOLEAN :
          Construct(Config(m, sh, size, stride, roi, fl, ro, nm))

Indices == (-(idcs_num + 2))..(idcs_num + 1)

GetItem(r) ==
    \/ \E idx \in Indices : GetItemLookup(r, idx)
    \/ GetItemCrop(r)
    \/ GetItemFlip(r)
    \/ GetItemRotate(r)
    \/ GetItemReturn(r)

NextRead == ReadBuild \/ GetItem(1)

SpecRead == Init /\ [][NextRead]_vars

\* Sharing: one dataset over a 5 x 4 all-tissue slide with patches of side
\* 2 (two coordinates), read by every reader at once, each index from 0 to
\* len, with __len__ and the accessors called in between.
ConcBuild ==
    /\ pc = "new"
    /\ \E sh \in ReadShapes(5, 4), fl \in Flips, ro \in Rotates :
          Construct(Config(MaskRaster(5, 4, 0..4, 0..3, 255), sh, 2, 1, TRUE,
                           fl, ro, TRUE))

ConcGetItem(r) ==
    \/ \E idx \in 0..idcs_num : GetItemLookup(r, idx)
    \/ GetItemCrop(r)
    \/ GetItemFlip(r)
    \/ GetItemRotate(r)
    \/ GetItemReturn(r)

NextConc ==
    \/ ConcBuild
    \/ \E r \in Readers : ConcGetItem(r)
    \/ Len_
    \/ get_mask
    \/ get_label_mask
    \/ get_image
    \/ get_strided_mask
    \/ save_get_mask

SpecConc == Init /\ [][NextConc]_vars

----------------------------------------------------------------------------
(* Vocabulary of the properties *)

Half == image_size \div 2

\* The pairs the Coordinate Index holds.
IndexPairs == {<<X_idcs[i], Y_idcs[i]>> : i \in 1..Len(X_idcs)}

AllTissue == \A p \in Pos(mask.h, mask.w) : mask.px[p] # 0
NoTissue  == \A p \in Pos(mask.h, mask.w) : mask.px[p] = 0

ShapesAgree ==
    /\ slide.h = mask.h /\ slide.w = mask.w
    /\ has_label => (label_slide.h = mask.h /\ label_slide.w = mask.w)

\* A patch of side image_size centred on p fits the mask, strictly.
Fits(p) ==
    /\ p[1] - Half > 0 /\ p[1] + Half < mask.h
    /\ p[2] - Half > 0 /\ p[2] + Half < mask.w

\* Strided-Mask-true positions that pass the boundary filter.
Passing == {p \in Pos(mask.h, mask.w) : strided_mask.px[p] # 0 /\ Fits(p)}

OnLattice(p) == p[1] % sampling_stride = 0 /\ p[2] % sampling_stride = 0

----------------------------------------------------------------------------
(* Properties of construction, checked under Spec *)

\* C1: after construction every entry (x, y) of the Coordinate Index passes
\* the four strict boundary tests against the mask's shape, with the same
\* floor-divided half size image_size // 2 on both sides.
C1_BoundaryFit ==
    pc = "constructed" =>
        /\ Len(X_idcs) = Len(Y_idcs)
        /\ \A i \in 1..Len(X_idcs) :
              /\ X_idcs[i] - (image_size \div 2) > 0
              /\ X_idcs[i] + (image_size \div 2) < mask.h
              /\ Y_idcs[i] - (image_size \div 2) > 0
              /\ Y_idcs[i] + (image_size \div 2) < mask.w

\* An odd image_size, an index that is not empty, and strided positions the
\* filter rejected.
C1_Witness ==
    /\ pc = "constructed" /\ image_size = 3
    /\ Len(X_idcs) >= 1
    /\ \E p \in Pos(mask.h, mask.w) : strided_mask.px[p] # 0 /\ ~Fits(p)

\* C2: __len__ returns the number of Strided-Mask-true positions that pass
\* the boundary test, the index holds exactly those positions, and with an
\* all-true tissue mask and stride 1 every pixel strictly inside the margin
\* image_size // 2 is selected.
C2_LengthCountsPassing ==
    ret.op = "__len__" =>
        /\ ret.val = Cardinality(Passing)
        /\ ret.val = Len(X_idcs)
        /\ IndexPairs = Passing
        /\ (AllTissue /\ sampling_stride = 1) =>
              \A x \in 0..(mask.h - 1), y \in 0..(mask.w - 1) :
                 (Half < x /\ x < mask.h - Half /\ Half < y /\ y < mask.w - Half)
                    => <<x, y>> \in IndexPairs

\* __len__ has returned for an all-tissue mask sampled at stride 1 with
\* several interior pixels.
C2_Witness ==
    /\ ret.op = "__len__" /\ ret.val >= 4
    /\ AllTissue /\ sampling_stride = 1 /\ roi_masking

\* C3 (as claimed): construction with roi_masking and a tissue mask that is
\* all zero completes with an empty Coordinate Index, so __len__ is 0.
C3_EmptyMaskGivesEmptyIndex ==
    (pc # "new" /\ roi_masking /\ NoTissue /\ sampling_stride >= 1 /\ ShapesAgree)
        => (pc = "constructed" /\ idcs_num = 0 /\ Len(X_idcs) = 0)

\* C5 (as claimed): construction with a stride <= 0 or with rasters whose
\* dimensions differ always ends in a construction error.
C5_InvalidInputsRejected ==
    (pc # "new" /\ (sampling_stride <= 0 \/ ~ShapesAgree)) => pc = "failed"

\* C6: for a valid stride the Strided Mask is true exactly on the lattice
\* (row and column both multiples of the stride) when roi_masking is off,
\* whatever the tissue mask holds, and exactly on the lattice positions with
\* nonzero tissue when it is on; with roi_masking off an all-zero tissue mask
\* still yields the lattice positions that pass the boundary filter.
C6_StridedMaskIsLattice ==
    (pc # "new" /\ sampling_stride >= 1) =>
        /\ strided_mask.h = mask.h /\ strided_mask.w = mask.w
        /\ \A p \in Pos(mask.h, mask.w) :
              (strided_mask.px[p] # 0) <=>
                 (OnLattice(p) /\ (roi_masking => mask.px[p] # 0))
        /\ (~roi_masking /\ NoTissue) =>
              /\ pc = "constructed"
              /\ IndexPairs = {p \in Pos(mask.h, mask.w) : OnLattice(p) /\ Fits(p)}

\* roi_masking off, an all-zero tissue mask, stride 2, and lattice
\* coordinates in the index.
C6_Witness ==
    /\ pc = "constructed" /\ ~roi_masking /\ NoTissue
    /\ sampling_stride = 2 /\ Len(X_idcs) >= 1

\* roi_masking on: the strided mask drops lattice positions without tissue.
C6_WitnessRoi ==
    /\ pc = "constructed" /\ roi_masking /\ sampling_stride = 2
    /\ \E p \in Pos(mask.h, mask.w) : OnLattice(p) /\ mask.px[p] = 0
    /\ Len(X_idcs) >= 1

----------------------------------------------------------------------------
(* Properties of indexed access, checked under SpecRead *)

Returned(r) == rpc[r] = "returned" /\ rret[r].op = "__getitem__"

LexLess(a, b) == a[1] < b[1] \/ (a[1] = b[1] /\ a[2] < b[2])

C4_WitnessWrap ==
    /\ idcs_num >= 2 /\ Returned(1) /\ ridx[1] = -1

\* C8: with no label path, for every in-range index and every flip and
\* rotate setting, the returned label patch is image_size by image_size,
\* single-channel, and 0 everywhere.
C8_AbsentLabelIsZero ==
    \A r \in Readers :
        (Returned(r) /\ ~has_label) =>
            LET lab == rret[r].val[4]
            IN  /\ lab.h = image_size /\ lab.w = image_size
                /\ DOMAIN lab.px = Pos(image_size, image_size)
                /\ \A p \in Pos(image_size, image_size) : lab.px[p] = 0

\* A patch of side 3 returned without a label path, flipped and rotated.
C8_Witness ==
    /\ Returned(1) /\ ~has_label /\ image_size = 3
    /\ flip = "FLIP_LEFT_RIGHT" /\ rotate = "ROTATE_90"

\* Where the pixel at position p of an n x n patch goes under the flip mode.
FlipDest(p, n) == IF flip = "FLIP_LEFT_RIGHT" THEN <<p[1], n - 1 - p[2]>> ELSE p

\* Where it goes under the rotate mode (counter-clockwise).
RotateDest(p, n) ==
    CASE rotate = "NONE"       -> p
      [] rotate = "ROTATE_90"  -> <<n - 1 - p[2], p[1]>>
      [] rotate = "ROTATE_180" -> <<n - 1 - p[1], n - 1 - p[2]>>
      [] rotate = "ROTATE_270" -> <<p[2], n - 1 - p[1]>>

\* The float the image conversion makes of channel value v, times 128.
Converted(v) == IF normalize THEN v - 128 ELSE 128 * v

\* C9: for every flip and rotate mode the returned patches are the crops
\* flipped first and then rotated once by the stated angle, the image and
\* the label alike: the pixels at position p of the two crops land on the
\* same output position.
C9_FlipThenRotateAligned ==
    \A r \in Readers :
        Returned(r) =>
            LET n    == image_size
                x    == rret[r].val[2]
                y    == rret[r].val[3]
                img  == rret[r].val[1]
                lab  == rret[r].val[4]
                crop == getImagePatch(slide, x, y, n)
                lcrop == IF has_label THEN getImagePatch(label_slide, x, y, n)
                         ELSE [h |-> n, w |-> n, px |-> [p \in Pos(n, n) |-> 0]]
            IN  /\ img.h = n /\ img.w = n /\ lab.h = n /\ lab.w = n
                /\ \A p \in Pos(n, n) :
                      LET q == RotateDest(FlipDest(p, n), n)
                      IN  /\ \A c \in 1..3 : img.px[q][c] = Converted(crop.px[p][c])
                          /\ lab.px[q] = lcrop.px[p]

\* A labelled patch of side 2 returned after a flip and a quarter turn.
C9_Witness ==
    /\ Returned(1) /\ has_label /\ image_size >= 2
    /\ flip = "FLIP_LEFT_RIGHT" /\ rotate = "ROTATE_270"

\* C10: the Coordinate Index lists the kept positions in the row-major scan
\* order of the Strided Mask: two sequences of equal length, strictly
\* increasing in lexicographic order (so nothing twice), holding exactly the
\* passing positions; and __getitem__(i) returns the i-th x and y.
C10_RowMajorOrder ==
    pc = "constructed" =>
        /\ Len(X_idcs) = Len(Y_idcs)
        /\ IndexPairs = Passing
        /\ \A i \in 1..Len(X_idcs), j \in 1..Len(X_idcs) :
              i < j => LexLess(<<X_idcs[i], Y_idcs[i]>>, <<X_idcs[j], Y_idcs[j]>>)
        /\ \A r \in Readers :
              (Returned(r) /\ 0 <= ridx[r] /\ ridx[r] < idcs_num) =>
                  /\ rret[r].val[2] = X_idcs[ridx[r] + 1]
                  /\ rret[r].val[3] = Y_idcs[ridx[r] + 1]

\* An index spanning two rows and two columns, and entry 2 returned.
C10_Witness ==
    /\ pc = "constructed" /\ Len(X_idcs) >= 4
    /\ X_idcs[1] = X_idcs[2] /\ Y_idcs[1] < Y_idcs[2]
    /\ X_idcs[1] < X_idcs[3] /\ Y_idcs[3] < Y_idcs[2]
    /\ Returned(1) /\ ridx[1] = 2

----------------------------------------------------------------------------
(* Properties of shared reading, checked under SpecConc *)

\* C7: once constructed, no step of any reader's __getitem__, of __len__ or
\* of an accessor changes the configuration, the rasters or the Coordinate
\* Index, and two calls of __getitem__ with the same index have returned the
\* identical 4-tuple.
C7_ReadOnlyAndIdempotent ==
    [][ /\ pc = "constructed" => (pc' = "constructed" /\ object' = object)
        /\ \A r \in Readers, q \in Readers :
              (rret'[r].op = "__getitem__" /\ rret'[q].op = "__getitem__"
                 /\ ridx'[r] = ridx'[q])
                => rret'[r].val = rret'[q].val ]_vars

\* Two readers hold the result of the same index while accessors have been
\* called, under a flip.
C7_Witness ==
    /\ Returned(1) /\ Returned(2) /\ ridx[1] = ridx[2] /\ ridx[1] = 1
    /\ flip = "FLIP_LEFT_RIGHT" /\ ret.op = "get_image"
    /\ saved = mask

====
